---- MODULE Spec2Model ----
(***************************************************************************)
(* Child-process supervision loop of brush-core-vendored                   *)
(* (src/crates/brush-core-vendored/src/processes.rs) together with the     *)
(* signal layer it races against (src/.../sys/stubs/signal.rs for the      *)
(* degraded platform; the native listeners are modelled from the           *)
(* specification, the native signal module not being part of the sources). *)
(***************************************************************************)
EXTENDS Integers, Sequences, FiniteSets, TLC

(* ---------------------------------------------------------------------- *)
(* Bounds                                                                   *)
(* ---------------------------------------------------------------------- *)
MaxStatus == 1
MaxNotifs == 2
MaxCalls == 2
MaxPolls == 1

Platforms == {"stub", "native"}
Statuses == 0..MaxStatus
OsErrors == {"EIO", "ECHILD"}
Kinds == {"tstp", "chld", "int"}

VARIABLES
    platform,     \* which sys::signal implementation the build selected
    child,        \* the OS child: Running, Exited(status) or Fault(err)
    killPending,  \* a termination request was accepted by the OS and has not landed yet
    cancelFired,  \* the (shared, monotonic) cancellation source
    pending,      \* [tstp, chld, int] : a notification is waiting in the listener
    anyStopped,   \* some child of the process is currently stopped
    everStopped,  \* history: anyStopped has held
    sent,         \* history: [tstp, chld, int] a notification of the kind was delivered
    notifs,       \* notifications the environment has raised so far
    pc,           \* position of wait: idle, tstp, chld, loop, select, done
    token,        \* the cancel_token argument of the running call: "none" | "some"
    preFired,     \* history: the token of this call had fired when wait was called
    result,       \* what the call returned, [kind |-> "None"] while it runs
    branch,       \* the select branch taken last
    retChild,     \* history: child.st when the call returned
    retReady,     \* history: the set of select branches that were ready at the last select
    killCount,    \* start_kill requests issued by this call
    killRes,      \* what the last start_kill returned
    pollCount,    \* poll_for_stopped_children queries of this call
    pollRes,      \* what the last poll_for_stopped_children returned
    iter,         \* loop iterations of this call
    acq,          \* [tstp, chld, ctrlc, waitfut] : futures/listeners created by this call
    calls,        \* wait calls made on the handle
    lastPoll,     \* what the last poll() returned
    polls,        \* poll() calls made since the last wait call
    windows,      \* cfg(windows) of the stub signal module
    sigOp,        \* the signal-layer function that was applied, "none" before
    strIn,        \* its string argument, a sequence of characters
    numIn,        \* its i32 argument
    sigArg,       \* its signal argument
    sigOut,       \* what it returned
    proc,         \* the process kill_process aims at: alive, gone or terminated
    findPc,       \* position of run_find: idle, walk, finish, done
    walk,         \* the matching entries in walk order (sorted by path)
    maxResults,   \* FindConfig::max_results
    sortByMtime,  \* FindConfig::sort_by_mtime
    idx,          \* entries of the walk visited so far
    matches,      \* the matches vector
    findOut       \* the FindResult returned

envVars == <<platform, child, killPending, cancelFired, pending, anyStopped, everStopped, sent,
            notifs>>
callVars == <<pc, token, preFired, result, branch, retChild, retReady, killCount, killRes,
              pollCount, pollRes, iter, acq, calls>>
pollVars == <<lastPoll, polls>>
sigVars == <<windows, sigOp, strIn, numIn, sigArg, sigOut, proc>>
findVars == <<findPc, walk, maxResults, sortByMtime, idx, matches, findOut>>
vars == <<envVars, callVars, pollVars, sigVars, findVars>>

(* ---------------------------------------------------------------------- *)
(* Values                                                                   *)
(* ---------------------------------------------------------------------- *)
Running == [st |-> "running"]
Exited(s) == [st |-> "exited", status |-> s]
Fault(e) == [st |-> "fault", err |-> e]

NoFlags == [k \in Kinds |-> FALSE]
NoAcq == [tstp |-> 0, chld |-> 0, ctrlc |-> 0, waitfut |-> 0]

\* a conversion that loses the status the OS reported
OutputDropsStatus(status) == [status |-> 0, stdout |-> <<>>, stderr |-> <<>>]

\* processes.rs:94-96
output_from_status(status) == [status |-> status, stdout |-> <<>>, stderr |-> <<>>]

\* processes.rs:99-106
Completed(output) == [kind |-> "Completed", output |-> output]
Stopped == [kind |-> "Stopped"]
Cancelled == [kind |-> "Cancelled"]
\* Err(error::Error) of Result<ProcessWaitResult, error::Error>; `?` wraps the
\* underlying error by From.
WaitErr(origin, e) == [kind |-> "Err", origin |-> origin, err |-> e]
NoResult == [kind |-> "None"]

(* ---------------------------------------------------------------------- *)
(* Signal layer                                                             *)
(* ---------------------------------------------------------------------- *)
\* a stand-in listener that resolves like a native one
FakeRecvResolves(delivered) == delivered

\* stubs/signal.rs:116-118: FakeSignal::recv awaits future::pending, whatever
\* the OS has delivered.
FakeSignal_recv(delivered) == FALSE

\* A native listener resolves once a notification has been delivered to it.
NativeRecv(delivered) == delivered

\* sigtstp.recv() / sigchld.recv() / await_ctrl_c() of the selected platform
ListenerReady(k) ==
    IF platform = "stub" THEN FakeSignal_recv(pending[k]) ELSE NativeRecv(pending[k])

\* stubs/signal.rs:121-127: Ok(FakeSignal::new())
FakeListener == {"ok"}

\* a native registration may fail
NativeListener == {"ok", "err"}

\* processes.rs:34,36: tstp_signal_listener() / chld_signal_listener()
ListenerOutcomes == IF platform = "stub" THEN FakeListener ELSE NativeListener

\* stubs/signal.rs:138-140: Ok(false)
StubPollForStopped == {"false"}

\* natively: whether a child of the process is stopped, or the failure of the query
NativePollForStopped == {IF anyStopped THEN "true" ELSE "false", "err"}

\* processes.rs:56: sys::signal::poll_for_stopped_children()
poll_for_stopped_children ==
    IF platform = "stub" THEN StubPollForStopped ELSE NativePollForStopped

(* ---------------------------------------------------------------------- *)
(* The futures raced by wait                                                *)
(* ---------------------------------------------------------------------- *)
\* an exit-wait future that never resolves
WaitFutureNeverResolves == FALSE

\* processes.rs:49-52: self.child.wait() resolves once the child has exited or
\* the OS wait has failed.
wait_future_ready == child.st # "running"

\* a cancellation future that stays pending even for Some(token)
CancelledNeverReady(tok) == FALSE

\* processes.rs:38-43: token.cancelled() for Some(token), pending() for None.
cancelled_ready(tok) == tok = "some" /\ cancelFired

Branches == {"exit", "cancel", "tstp", "chld", "int"}

BranchReady(b) ==
    CASE b = "exit" -> wait_future_ready
      [] b = "cancel" -> cancelled_ready(token)
      [] b = "tstp" -> ListenerReady("tstp")
      [] b = "chld" -> ListenerReady("chld")
      [] b = "int" -> ListenerReady("int")

\* tokio::select! without `biased`: any ready branch may be the one taken.
Ready == {b \in Branches : BranchReady(b)}

(* ---------------------------------------------------------------------- *)
(* What each branch of wait produces (NoResult: `continue`)                 *)
(* ---------------------------------------------------------------------- *)
\* an exit-wait error answered by waiting again
ExitRetriesOnError(c) ==
    IF c.st = "exited" THEN Completed(output_from_status(c.status)) ELSE NoResult

\* processes.rs:52,70-71
ExitOutcome(c) ==
    IF c.st = "exited" THEN Completed(output_from_status(c.status))
    ELSE WaitErr("wait", c.err)

\* a failed start_kill propagated with `?`
KillErrorPropagates(kr) == IF kr = "err" THEN WaitErr("start_kill", "errno") ELSE Cancelled

\* processes.rs:72-75 with kill (80-83): the result of start_kill is dropped.
CancelOutcome(kr) == Cancelled

\* processes.rs:54
TstpOutcome == Stopped

\* a child-state-changed branch that never reports a stop
ChldNeverStopped(pr) ==
    IF pr = "err" THEN WaitErr("poll_for_stopped_children", "errno") ELSE NoResult

\* a child-state-changed branch that reports a stop without looking at the query
ChldIgnoresQuery(pr) == Stopped

\* processes.rs:55-60
ChldOutcome(pr) ==
    CASE pr = "true" -> Stopped
      [] pr = "false" -> NoResult
      [] pr = "err" -> WaitErr("poll_for_stopped_children", "errno")

\* an interrupt that ends the wait
IntGivesUp == Cancelled

\* processes.rs:61-66
IntOutcome == NoResult

\* a stop branch that queries the stopped children like the child-state one
BranchPollsTstpToo(b) == IF b \in {"chld", "tstp"} THEN 1 ELSE 0

\* a cancellation branch that forgets the termination request
BranchKillsNothing(b) == 0

\* a stop branch that requests the termination as the cancellation branch does
BranchKillsOnStop(b) == IF b \in {"cancel", "tstp"} THEN 1 ELSE 0

\* queries of poll_for_stopped_children made by a branch
BranchPolls(b) == IF b = "chld" THEN 1 ELSE 0

\* termination requests issued by a branch
BranchKills(b) == IF b = "cancel" THEN 1 ELSE 0

\* a status query that reports a running child as long as the OS wait works
PollBlindToExit ==
    IF child.st = "fault" THEN [kind |-> "Some", res |-> "Err", err |-> child.err]
    ELSE [kind |-> "None"]

\* processes.rs:85-91
poll ==
    CASE child.st = "exited" ->
            [kind |-> "Some", res |-> "Ok", output |-> output_from_status(child.status)]
      [] child.st = "running" -> [kind |-> "None"]
      [] child.st = "fault" -> [kind |-> "Some", res |-> "Err", err |-> child.err]

NotPolled == [kind |-> "NotPolled"]

(* ---------------------------------------------------------------------- *)
(* Initial state: a handle freshly built by ChildProcess::new               *)
(* ---------------------------------------------------------------------- *)
\* the signal-layer functions have not been applied
SigIdle ==
    /\ sigOp = "none"
    /\ strIn = <<>>
    /\ numIn = 0
    /\ sigArg = "none"
    /\ sigOut = [kind |-> "None"]

\* no find is running
FindIdle ==
    /\ findPc = "idle"
    /\ walk = <<>>
    /\ maxResults = 0
    /\ sortByMtime = FALSE
    /\ idx = 0
    /\ matches = <<>>
    /\ findOut = [kind |-> "None"]

HandleInit ==
    /\ platform \in Platforms
    /\ child = Running
    /\ killPending = FALSE
    /\ cancelFired = FALSE
    /\ pending = NoFlags
    /\ anyStopped = FALSE
    /\ everStopped = FALSE
    /\ sent = NoFlags
    /\ notifs = 0
    /\ pc = "idle"
    /\ token = "none"
    /\ preFired = FALSE
    /\ result = NoResult
    /\ branch = "none"
    /\ retChild = "-"
    /\ retReady = {}
    /\ killCount = 0
    /\ killRes = "-"
    /\ pollCount = 0
    /\ pollRes = "-"
    /\ iter = 0
    /\ acq = NoAcq
    /\ calls = 0
    /\ lastPoll = NotPolled
    /\ polls = 0

Init ==
    /\ HandleInit
    /\ SigIdle
    /\ windows = FALSE
    /\ proc = "alive"
    /\ FindIdle

(* ---------------------------------------------------------------------- *)
(* Environment                                                              *)
(* ---------------------------------------------------------------------- *)
\* the child exits by itself; the OS raises child-state-changed
ChildExit ==
    /\ child.st = "running"
    /\ \E s \in Statuses : child' = Exited(s)
    /\ killPending' = FALSE
    /\ pending' = [pending EXCEPT !["chld"] = TRUE]
    /\ sent' = [sent EXCEPT !["chld"] = TRUE]
    /\ UNCHANGED <<platform, cancelFired, anyStopped, everStopped, notifs, callVars, pollVars, sigVars, findVars>>

\* an accepted termination request takes effect
KillLands ==
    /\ child.st = "running"
    /\ killPending
    /\ \E s \in Statuses : child' = Exited(s)
    /\ killPending' = FALSE
    /\ pending' = [pending EXCEPT !["chld"] = TRUE]
    /\ sent' = [sent EXCEPT !["chld"] = TRUE]
    /\ UNCHANGED <<platform, cancelFired, anyStopped, everStopped, notifs, callVars, pollVars, sigVars, findVars>>

\* the OS can no longer report on the child: waiting for it fails
ChildFault ==
    /\ child.st = "running"
    /\ \E e \in OsErrors : child' = Fault(e)
    /\ killPending' = FALSE
    /\ UNCHANGED <<platform, cancelFired, pending, anyStopped, everStopped, sent, notifs,
                   callVars, pollVars, sigVars, findVars>>

\* somebody fires the cancellation source; firing is monotonic
CancelFire ==
    /\ ~cancelFired
    /\ cancelFired' = TRUE
    /\ UNCHANGED <<platform, child, killPending, pending, anyStopped, everStopped, sent, notifs,
                   callVars, pollVars, sigVars, findVars>>

\* a stop request, a child-state change or an interrupt is delivered
Notify ==
    /\ notifs < MaxNotifs
    /\ \E k \in Kinds :
        /\ pending' = [pending EXCEPT ![k] = TRUE]
        /\ sent' = [sent EXCEPT ![k] = TRUE]
    /\ notifs' = notifs + 1
    /\ UNCHANGED <<platform, child, killPending, cancelFired, anyStopped, everStopped,
                   callVars, pollVars, sigVars, findVars>>

\* some child of the process is suspended; the OS raises child-state-changed
ChildStops ==
    /\ notifs < MaxNotifs
    /\ ~anyStopped
    /\ anyStopped' = TRUE
    /\ everStopped' = TRUE
    /\ pending' = [pending EXCEPT !["chld"] = TRUE]
    /\ sent' = [sent EXCEPT !["chld"] = TRUE]
    /\ notifs' = notifs + 1
    /\ UNCHANGED <<platform, child, killPending, cancelFired, callVars, pollVars, sigVars, findVars>>

\* the suspended child is resumed
ChildContinues ==
    /\ anyStopped
    /\ anyStopped' = FALSE
    /\ UNCHANGED <<platform, child, killPending, cancelFired, pending, everStopped, sent, notifs,
                   callVars, pollVars, sigVars, findVars>>


(* ---------------------------------------------------------------------- *)
(* ChildProcess::wait                                                       *)
(* ---------------------------------------------------------------------- *)
\* processes.rs:29-32: the call; the handle is held exclusively (&mut self)
WaitCall ==
    /\ pc \in {"idle", "done"}
    /\ calls < MaxCalls
    /\ \E tok \in {"none", "some"} :
        /\ token' = tok
        /\ preFired' = (tok = "some" /\ cancelFired)
    /\ pc' = "tstp"
    /\ result' = NoResult
    /\ branch' = "none"
    /\ retChild' = "-"
    /\ retReady' = {}
    /\ killCount' = 0
    /\ killRes' = "-"
    /\ pollCount' = 0
    /\ pollRes' = "-"
    /\ iter' = 0
    /\ acq' = NoAcq
    /\ calls' = calls + 1
    /\ lastPoll' = NotPolled
    /\ polls' = 0
    /\ UNCHANGED <<envVars, sigVars, findVars>>

\* processes.rs:34: sys::signal::tstp_signal_listener()?
AcquireTstp ==
    /\ pc = "tstp"
    /\ \E r \in ListenerOutcomes :
        IF r = "ok"
        THEN /\ acq' = [acq EXCEPT !.tstp = @ + 1]
             /\ pending' = [pending EXCEPT !["tstp"] = FALSE]
             /\ pc' = "chld"
             /\ UNCHANGED <<result, retChild>>
        ELSE /\ result' = WaitErr("tstp_signal_listener", "errno")
             /\ retChild' = child.st
             /\ pc' = "done"
             /\ UNCHANGED <<acq, pending>>
    /\ UNCHANGED <<platform, child, killPending, cancelFired, anyStopped, everStopped, sent,
                   notifs, token, preFired, branch, retReady, killCount, killRes, pollCount,
                   pollRes, iter, calls, pollVars, sigVars, findVars>>

\* processes.rs:36: sys::signal::chld_signal_listener()?
AcquireChld ==
    /\ pc = "chld"
    /\ \E r \in ListenerOutcomes :
        IF r = "ok"
        THEN /\ acq' = [acq EXCEPT !.chld = @ + 1]
             /\ pending' = [pending EXCEPT !["chld"] = FALSE]
             /\ pc' = "loop"
             /\ UNCHANGED <<result, retChild>>
        ELSE /\ result' = WaitErr("chld_signal_listener", "errno")
             /\ retChild' = child.st
             /\ pc' = "done"
             /\ UNCHANGED <<acq, pending>>
    /\ UNCHANGED <<platform, child, killPending, cancelFired, anyStopped, everStopped, sent,
                   notifs, token, preFired, branch, retReady, killCount, killRes, pollCount,
                   pollRes, iter, calls, pollVars, sigVars, findVars>>

\* an iteration that registers the stop and child-state listeners again
LoopAcquiresAll == [tstp |-> 1, chld |-> 1, ctrlc |-> 1, waitfut |-> 1]

\* processes.rs:49,61: what an iteration creates: self.child.wait() and
\* sys::signal::await_ctrl_c() are called inside the loop
LoopAcquires == [tstp |-> 0, chld |-> 0, ctrlc |-> 1, waitfut |-> 1]

\* a listener created anew has not been notified yet
Fresh(a) == [k \in Kinds |->
               IF k = "int" THEN a.ctrlc > 0 ELSE IF k = "tstp" THEN a.tstp > 0 ELSE a.chld > 0]

\* processes.rs:47-51,61: the head of an iteration builds the exit-wait future
\* and the interrupt future anew, then suspends in select!
LoopHead ==
    /\ pc = "loop"
    /\ acq' = [f \in DOMAIN acq |-> acq[f] + LoopAcquires[f]]
    /\ pending' = [k \in Kinds |-> pending[k] /\ ~Fresh(LoopAcquires)[k]]
    /\ iter' = iter + 1
    /\ pc' = "select"
    /\ UNCHANGED <<platform, child, killPending, cancelFired, anyStopped, everStopped, sent,
                   notifs, token, preFired, result, branch, retChild, retReady, killCount,
                   killRes, pollCount, pollRes, calls, pollVars, sigVars, findVars>>

\* what a select branch leaves behind: the outcome r (NoResult: continue)
Finish(b, r) ==
    /\ branch' = b
    /\ retReady' = Ready
    /\ result' = r
    /\ pc' = IF r.kind = "None" THEN "loop" ELSE "done"
    /\ retChild' = IF r.kind = "None" THEN retChild ELSE child.st
    /\ pollCount' = pollCount + BranchPolls(b)
    /\ killCount' = killCount + BranchKills(b)

\* processes.rs:52,70-71: the exit-wait resolved
SelectExit ==
    /\ pc = "select"
    /\ "exit" \in Ready
    /\ Finish("exit", ExitOutcome(child))
    /\ UNCHANGED <<envVars, token, preFired, killRes, pollRes, iter, acq, calls, pollVars, sigVars, findVars>>

\* processes.rs:53,72-75,80-83: the cancellation fired; start_kill is requested
\* and may be accepted or refused by the OS
SelectCancel ==
    /\ pc = "select"
    /\ "cancel" \in Ready
    /\ \E kr \in {"ok", "err"} :
        /\ killRes' = kr
        /\ killPending' = (killPending \/ (BranchKills("cancel") > 0 /\ kr = "ok" /\ child.st = "running"))
        /\ Finish("cancel", CancelOutcome(kr))
    /\ UNCHANGED <<platform, child, cancelFired, pending, anyStopped, everStopped, sent, notifs,
                   token, preFired, pollRes, iter, acq, calls, pollVars, sigVars, findVars>>

\* processes.rs:54: the stop listener fired
SelectTstp ==
    /\ pc = "select"
    /\ "tstp" \in Ready
    /\ pending' = [pending EXCEPT !["tstp"] = FALSE]
    /\ \E pr \in IF BranchPolls("tstp") > 0 THEN poll_for_stopped_children ELSE {pollRes} :
        pollRes' = pr
    /\ Finish("tstp", TstpOutcome)
    /\ UNCHANGED <<platform, child, killPending, cancelFired, anyStopped, everStopped, sent,
                   notifs, token, preFired, killRes, iter, acq, calls, pollVars, sigVars, findVars>>

\* processes.rs:55-60: the child-state-changed listener fired
SelectChld ==
    /\ pc = "select"
    /\ "chld" \in Ready
    /\ pending' = [pending EXCEPT !["chld"] = FALSE]
    /\ \E pr \in poll_for_stopped_children :
        /\ pollRes' = pr
        /\ Finish("chld", ChldOutcome(pr))
    /\ UNCHANGED <<platform, child, killPending, cancelFired, anyStopped, everStopped, sent,
                   notifs, token, preFired, killRes, iter, acq, calls, pollVars, sigVars, findVars>>

\* processes.rs:61-66: the interrupt future resolved
SelectInt ==
    /\ pc = "select"
    /\ "int" \in Ready
    /\ pending' = [pending EXCEPT !["int"] = FALSE]
    /\ Finish("int", IntOutcome)
    /\ UNCHANGED <<platform, child, killPending, cancelFired, anyStopped, everStopped, sent,
                   notifs, token, preFired, killRes, pollRes, iter, acq, calls, pollVars, sigVars, findVars>>

(* ---------------------------------------------------------------------- *)
(* ChildProcess::poll                                                       *)
(* ---------------------------------------------------------------------- *)
\* processes.rs:85-91; &mut self: never while a wait call is running
Poll ==
    /\ pc \in {"idle", "done"}
    /\ polls < MaxPolls
    /\ lastPoll' = poll
    /\ polls' = polls + 1
    /\ UNCHANGED <<envVars, callVars, sigVars, findVars>>

WaitStep ==
    \/ AcquireTstp
    \/ AcquireChld
    \/ LoopHead
    \/ SelectExit
    \/ SelectCancel
    \/ SelectTstp
    \/ SelectChld
    \/ SelectInt

Next ==
    \/ ChildExit
    \/ KillLands
    \/ ChildFault
    \/ CancelFire
    \/ Notify
    \/ ChildStops
    \/ ChildContinues
    \/ WaitCall
    \/ AcquireTstp
    \/ AcquireChld
    \/ LoopHead
    \/ SelectExit
    \/ SelectCancel
    \/ SelectTstp
    \/ SelectChld
    \/ SelectInt
    \/ Poll

Spec == Init /\ [][Next]_vars

\* the scheduler resumes the waiting task: a step of wait that stays possible
\* is eventually taken
FairSpec == Spec /\ WF_vars(WaitStep)

TypeOK ==
    /\ platform \in Platforms
    /\ child.st \in {"running", "exited", "fault"}
    /\ pc \in {"idle", "tstp", "chld", "loop", "select", "done"}
    /\ result.kind \in {"None", "Completed", "Stopped", "Cancelled", "Err"}
    /\ notifs \in 0..MaxNotifs
    /\ calls \in 0..MaxCalls

(* ---------------------------------------------------------------------- *)
(* Signal classification (sys/stubs/signal.rs)                              *)
(* ---------------------------------------------------------------------- *)
MaxNum == 16

LowerAlpha == <<"a", "b", "c", "d", "e", "f", "g", "h", "i", "j", "k", "l", "m",
                "n", "o", "p", "q", "r", "s", "t", "u", "v", "w", "x", "y", "z">>
UpperAlpha == <<"A", "B", "C", "D", "E", "F", "G", "H", "I", "J", "K", "L", "M",
                "N", "O", "P", "Q", "R", "S", "T", "U", "V", "W", "X", "Y", "Z">>
DigitChars == <<"0", "1", "2", "3", "4", "5", "6", "7", "8", "9">>

\* u8::to_ascii_uppercase: a-z go to A-Z, every other character stays
UpChar(c) ==
    IF \E i \in DOMAIN LowerAlpha : LowerAlpha[i] = c
    THEN UpperAlpha[CHOOSE i \in DOMAIN LowerAlpha : LowerAlpha[i] = c]
    ELSE c

\* str::to_ascii_uppercase (stubs/signal.rs:51)
to_ascii_uppercase(str) == [i \in 1..Len(str) |-> UpChar(str[i])]

RECURSIVE Digits(_)
\* the decimal digits of n >= 0
Digits(n) ==
    IF n < 10 THEN <<DigitChars[n + 1]>>
    ELSE Digits(n \div 10) \o <<DigitChars[(n % 10) + 1]>>

\* std::format!("{value}") of an i32 (stubs/signal.rs:67)
FormatI32(v) == IF v < 0 THEN <<"-">> \o Digits(0 - v) ELSE Digits(v)

OkSig(g) == [kind |-> "Ok", val |-> g]
OkUnit == [kind |-> "Ok", val |-> "()"]
InvalidSignal(text) == [kind |-> "Err", error |-> "InvalidSignal", text |-> text]
NotSupportedOnThisPlatform(what) ==
    [kind |-> "Err", error |-> "NotSupportedOnThisPlatform", what |-> what]
FailedToSendSignal == [kind |-> "Err", error |-> "FailedToSendSignal"]

\* stubs/signal.rs:26-31
iterator == IF windows THEN <<"Terminate", "Kill", "Interrupt">> ELSE <<>>

\* the members of enum Signal (stubs/signal.rs:6-22)
Signals == {iterator[i] : i \in DOMAIN iterator}

\* names that differ from what from_str accepts
AsStrLongNames(g) ==
    IF windows
    THEN CASE g = "Terminate" -> <<"T", "E", "R", "M">>
           [] g = "Kill" -> <<"K", "I", "L", "L">>
           [] g = "Interrupt" -> <<"I", "N", "T", "R">>
    ELSE <<>>

\* stubs/signal.rs:34-45
as_str(g) ==
    IF windows
    THEN CASE g = "Terminate" -> <<"T", "E", "R", "M">>
           [] g = "Kill" -> <<"K", "I", "L", "L">>
           [] g = "Interrupt" -> <<"I", "N", "T">>
    ELSE <<>>

\* the names from_str matches the uppercased input against (stubs/signal.rs:52-54)
Spelled(g) ==
    CASE g = "Terminate" -> {<<"T", "E", "R", "M">>, <<"S", "I", "G", "T", "E", "R", "M">>}
      [] g = "Kill" -> {<<"K", "I", "L", "L">>, <<"S", "I", "G", "K", "I", "L", "L">>}
      [] g = "Interrupt" -> {<<"I", "N", "T">>, <<"S", "I", "G", "I", "N", "T">>}

\* an error that carries the uppercased input
FromStrUppercasedError(str) ==
    IF windows /\ \E g \in Signals : to_ascii_uppercase(str) \in Spelled(g)
    THEN OkSig(CHOOSE g \in Signals : to_ascii_uppercase(str) \in Spelled(g))
    ELSE InvalidSignal(to_ascii_uppercase(str))

\* stubs/signal.rs:48-60
from_str(str) ==
    IF windows /\ \E g \in Signals : to_ascii_uppercase(str) \in Spelled(g)
    THEN OkSig(CHOOSE g \in Signals : to_ascii_uppercase(str) \in Spelled(g))
    ELSE InvalidSignal(str)

\* a conversion that knows the numbers of TERM, KILL and INT
TryFromKnowsNumbers(value) ==
    IF windows /\ value \in {15, 9, 2}
    THEN OkSig(IF value = 15 THEN "Terminate" ELSE IF value = 9 THEN "Kill" ELSE "Interrupt")
    ELSE InvalidSignal(FormatI32(value))

\* stubs/signal.rs:63-69
try_from(value) == InvalidSignal(FormatI32(value))

\* traps::TrapSignal values that can be built: a Signal, or a shell trap
TrapSignals == Signals \cup {"Debug", "Err", "Exit"}

\* stubs/signal.rs:78-103: on windows OpenProcess, TerminateProcess(handle, 1),
\* CloseHandle, whatever _signal is; elsewhere the error. opened: OpenProcess
\* gave a handle; terminated: TerminateProcess returned non-zero.
kill_process(signal, opened, terminated) ==
    IF windows
    THEN IF ~opened THEN FailedToSendSignal
         ELSE IF ~terminated THEN FailedToSendSignal
         ELSE OkUnit
    ELSE NotSupportedOnThisPlatform("killing process")

\* the spellings of c: itself and, for a capital letter, its small letter
CaseForms(c) ==
    {c} \cup {LowerAlpha[i] : i \in {j \in DOMAIN UpperAlpha : UpperAlpha[j] = c}}

\* every spelling of word w in small and capital letters
CaseVariants(w) ==
    {[i \in 1..Len(w) |-> IF i \in low THEN CHOOSE c \in CaseForms(w[i]) : c # w[i] ELSE w[i]] :
        low \in SUBSET {i \in 1..Len(w) : CaseForms(w[i]) # {w[i]}}}

\* the strings from_str is applied to
StrInputs ==
    UNION {CaseVariants(w) : w \in UNION {Spelled(g) : g \in {"Terminate", "Kill", "Interrupt"}}}
    \cup CaseVariants(<<"B", "O", "G", "U", "S">>)
    \cup {<<>>, <<"S", "I", "G">>, <<"T", "E", "R">>, <<"T", "E", "R", "M", "S">>,
          <<" ", "T", "E", "R", "M">>, <<"S", "I", "G", "_", "I", "N", "T">>,
          <<"1", "5">>, <<"9">>, <<"S", "I", "G", "S", "I", "G", "I", "N", "T">>}

\* the numbers try_from is applied to
NumInputs == (0 - MaxNum)..MaxNum

\* Signal::from_str(s)
SigFromStr ==
    /\ sigOp = "none"
    /\ \E str \in StrInputs :
        /\ strIn' = str
        /\ sigOut' = from_str(str)
    /\ sigOp' = "from_str"
    /\ UNCHANGED <<windows, numIn, sigArg, proc, envVars, callVars, pollVars, findVars>>

\* Signal::from_str(s.as_str()) for a signal yielded by Signal::iterator()
SigRoundTrip ==
    /\ sigOp = "none"
    /\ \E i \in DOMAIN iterator :
        /\ sigArg' = iterator[i]
        /\ strIn' = as_str(iterator[i])
        /\ sigOut' = from_str(as_str(iterator[i]))
    /\ sigOp' = "as_str"
    /\ UNCHANGED <<windows, numIn, proc, envVars, callVars, pollVars, findVars>>

\* Signal::try_from(value)
SigTryFrom ==
    /\ sigOp = "none"
    /\ \E v \in NumInputs :
        /\ numIn' = v
        /\ sigOut' = try_from(v)
    /\ sigOp' = "try_from"
    /\ UNCHANGED <<windows, strIn, sigArg, proc, envVars, callVars, pollVars, findVars>>

\* kill_process(pid, signal): the OS opens the process if it exists and is
\* accessible, and may refuse to terminate it
SigKillProcess ==
    /\ sigOp = "none"
    /\ \E g \in TrapSignals, opened \in {proc = "alive", FALSE}, terminated \in BOOLEAN :
        /\ sigArg' = g
        /\ sigOut' = kill_process(g, opened, terminated)
        /\ proc' = IF windows /\ opened /\ terminated THEN "terminated" ELSE proc
    /\ sigOp' = "kill_process"
    /\ UNCHANGED <<windows, strIn, numIn, envVars, callVars, pollVars, findVars>>

SigInit ==
    /\ HandleInit
    /\ platform = "stub"
    /\ SigIdle
    /\ windows \in BOOLEAN
    /\ proc \in {"alive", "gone"}
    /\ FindIdle

SigNext ==
    \/ SigFromStr
    \/ SigRoundTrip
    \/ SigTryFrom
    \/ SigKillProcess

SigSpec == SigInit /\ [][SigNext]_vars

(* ---------------------------------------------------------------------- *)
(* run_find (pi-natives/src/find.rs)                                        *)
(* ---------------------------------------------------------------------- *)
MaxEntries == 3
MaxMtime == 1
MaxLimit == 2

\* find.rs:315: max_results.map_or(usize::MAX, ..); stands for usize::MAX, which
\* exceeds the length of every walk
UnlimitedResults == 2147483647

\* FindMatch::mtime: Option<f64> (find.rs:60,160-164)
NoMtime == [some |-> FALSE, ms |-> 0]
SomeMtime(ms) == [some |-> TRUE, ms |-> ms]
Mtimes == {NoMtime} \cup {SomeMtime(ms) : ms \in 0..MaxMtime}

\* the entries that pass the filters of the walk (find.rs:237-259), in the
\* order of the walk, which is sorted by path (find.rs:208)
Walks ==
    UNION {{[i \in 1..n |-> [path |-> i, mtime |-> mt[i]]] : mt \in [1..n -> Mtimes]} :
              n \in 0..MaxEntries}

\* find.rs:315
Limits == (0..MaxLimit) \cup {UnlimitedResults}

\* find.rs:278-279: mtime.unwrap_or(0.0)
MtimeKey(e) == IF e.mtime.some THEN e.mtime.ms ELSE 0

\* one step of the stable sort: e goes behind the entries that are not older
InsertByMtime(e, sorted) ==
    LET keep == {i \in 1..Len(sorted) : MtimeKey(sorted[i]) >= MtimeKey(e)}
        k == IF keep = {} THEN 0 ELSE CHOOSE i \in keep : \A j \in keep : j <= i
    IN SubSeq(sorted, 1, k) \o <<e>> \o SubSeq(sorted, k + 1, Len(sorted))

RECURSIVE SortByMtime(_)
\* find.rs:277-283: matches.sort_by(b_mtime.partial_cmp(a_mtime)), a stable
\* sort, most recent first
SortByMtime(ms) ==
    IF ms = <<>> THEN <<>>
    ELSE InsertByMtime(ms[Len(ms)], SortByMtime(SubSeq(ms, 1, Len(ms) - 1)))

\* Vec::truncate (find.rs:284)
Truncate(ms, n) == IF Len(ms) <= n THEN ms ELSE SubSeq(ms, 1, n)

\* a walk that stops at the limit even when the matches are to be sorted
LimitDuringWalk(sort, len, max) == len >= max

\* find.rs:270: the limit ends the walk only when not sorting by mtime
BreakWalk(sort, len, max) == ~sort /\ len >= max

\* find.rs:287-288
FindResult(ms) == [kind |-> "Ok", matches |-> ms, totalMatches |-> Len(ms)]

\* find.rs:226-229
FindStart ==
    /\ findPc = "start"
    /\ IF maxResults = 0
       THEN findOut' = FindResult(<<>>) /\ findPc' = "done"
       ELSE findOut' = findOut /\ findPc' = "walk"
    /\ UNCHANGED <<walk, maxResults, sortByMtime, idx, matches, envVars, callVars, pollVars,
                   sigVars>>

\* find.rs:231-273: one entry of the walk
FindVisit ==
    /\ findPc = "walk"
    /\ idx < Len(walk)
    /\ idx' = idx + 1
    /\ matches' = Append(matches, walk[idx + 1])
    /\ findPc' = IF BreakWalk(sortByMtime, Len(matches) + 1, maxResults) THEN "finish" ELSE "walk"
    /\ UNCHANGED <<walk, maxResults, sortByMtime, findOut, envVars, callVars, pollVars, sigVars>>

\* find.rs:231: the walk is exhausted
FindWalkEnd ==
    /\ findPc = "walk"
    /\ idx = Len(walk)
    /\ findPc' = "finish"
    /\ UNCHANGED <<walk, maxResults, sortByMtime, idx, matches, findOut, envVars, callVars,
                   pollVars, sigVars>>

\* find.rs:275-288
FindFinish ==
    /\ findPc = "finish"
    /\ matches' = IF sortByMtime THEN Truncate(SortByMtime(matches), maxResults) ELSE matches
    /\ findOut' = FindResult(matches')
    /\ findPc' = "done"
    /\ UNCHANGED <<walk, maxResults, sortByMtime, idx, envVars, callVars, pollVars, sigVars>>

FindInit ==
    /\ HandleInit
    /\ platform = "stub"
    /\ SigIdle
    /\ windows = FALSE
    /\ proc = "alive"
    /\ findPc = "start"
    /\ walk \in Walks
    /\ maxResults \in Limits
    /\ sortByMtime \in BOOLEAN
    /\ idx = 0
    /\ matches = <<>>
    /\ findOut = [kind |-> "None"]

FindNext ==
    \/ FindStart
    \/ FindVisit
    \/ FindWalkEnd
    \/ FindFinish

FindSpec == FindInit /\ [][FindNext]_vars

(* ---------------------------------------------------------------------- *)
(* Properties                                                               *)
(* ---------------------------------------------------------------------- *)
Returned == pc = "done"

\* a step of wait that leaves the select through branch b
Took(b) == pc = "select" /\ pc' # "select" /\ branch' = b

\* C1, errors aside: a wait call without cancellation source that returns once
\* the child has exited returns Completed, never Stopped or Cancelled.
C1_ExitedNeverStoppedOrCancelled ==
    (Returned /\ token = "none" /\ retChild = "exited" /\ result.kind # "Err")
        => result.kind = "Completed"

\* C2 as stated, errors aside: a wait call whose cancellation source had fired
\* before the call returns Cancelled, whatever the child's state and whatever
\* notifications are ready.
C2_PreFiredReturnsCancelled ==
    (Returned /\ preFired /\ result.kind # "Err") => result.kind = "Cancelled"

\* C2 amended: a wait call whose cancellation source had fired before the call
\* eventually returns; the cancellation branch is ready at every select of the
\* call, and the call returns Cancelled whenever no other branch is ready there.
C2_PreFiredEventuallyReturns ==
    /\ [](pc = "tstp" /\ preFired => <>Returned)
    /\ [][(preFired /\ pc = "select" /\ pc' # "select") =>
            /\ "cancel" \in retReady'
            /\ (retReady' = {"cancel"} => result'.kind = "Cancelled")]_vars

C2_Witness ==
    Returned /\ preFired /\ retReady = {"cancel"} /\ result.kind = "Cancelled"
        /\ child.st = "running"

\* C3: a wait call has one outcome, present exactly when the call has returned,
\* and the outcome is justified: Completed only for an exited child whose
\* exit-wait resolved, Cancelled only with a fired cancellation source, Stopped
\* only after a delivered stop notification or a child-state notification whose
\* query found a stopped child.
C3_OutcomeJustified ==
    /\ result.kind \in {"None", "Completed", "Stopped", "Cancelled", "Err"}
    /\ (result.kind # "None") <=> Returned
    /\ result.kind = "Completed" => (branch = "exit" /\ child.st = "exited")
    /\ result.kind = "Cancelled" => (branch = "cancel" /\ token = "some" /\ cancelFired)
    /\ result.kind = "Stopped" =>
          \/ branch = "tstp" /\ sent["tstp"]
          \/ branch = "chld" /\ sent["chld"] /\ pollRes = "true" /\ everStopped
    /\ (Returned /\ branch # "none") => branch \in retReady

C3_Witness == Returned /\ result.kind = "Stopped" /\ branch = "chld"

\* C4: when the cancellation branch is taken, one termination request is issued
\* and wait returns Cancelled, whether start_kill succeeded or failed.
C4_CancelledWhateverKillDoes ==
    branch = "cancel" =>
        (Returned /\ result = Cancelled /\ killCount = 1 /\ killRes \in {"ok", "err"})

C4_Witness == branch = "cancel" /\ killRes = "err" /\ result = Cancelled

\* C5 as stated: a poll() made after wait has returned Cancelled returns Some.
C5_PollAfterCancelledIsSome ==
    (Returned /\ result.kind = "Cancelled" /\ polls > 0) => lastPoll.kind = "Some"

\* C5 amended: a poll() made after wait has returned Cancelled returns None
\* exactly when the child is still running, and that happens only while the
\* termination request was refused or has not taken effect yet.
C5_PollAfterCancelled ==
    [][(Returned /\ result.kind = "Cancelled" /\ polls' = polls + 1) =>
        /\ (lastPoll'.kind = "None") <=> (child.st = "running")
        /\ (lastPoll'.kind = "None") => (killRes = "err" \/ killPending)]_vars

C5_Witness ==
    Returned /\ result.kind = "Cancelled" /\ polls > 0 /\ lastPoll.kind = "None"
        /\ killRes = "ok"

C7_StopReturnsAtOnce ==
    [][Took("tstp") =>
        /\ result' = Stopped
        /\ pc' = "done"
        /\ pollCount' = pollCount
        /\ killCount' = killCount
        /\ killPending' = killPending
        /\ iter' = iter]_vars

C7_Witness == branch = "tstp" /\ result = Stopped /\ pollCount = 0 /\ anyStopped = FALSE

\* C8: the interrupt branch produces no result and leaves the child alone; the
\* loop goes on and a call never ends on the interrupt branch.
C8_InterruptOnlyRestarts ==
    /\ [][Took("int") =>
            /\ result' = NoResult
            /\ pc' = "loop"
            /\ killCount' = killCount
            /\ killPending' = killPending
            /\ pollCount' = pollCount
            /\ child' = child]_vars
    /\ [](branch = "int" => ~Returned)

C8_Witness == branch = "int" /\ pc = "select" /\ iter = 2

\* C9: Completed carries the exit status the OS reported, with empty stdout and
\* stderr.
C9_CompletedCarriesStatus ==
    result.kind = "Completed" =>
        result.output = [status |-> child.status, stdout |-> <<>>, stderr |-> <<>>]

C9_Witness == result.kind = "Completed" /\ result.output.status = MaxStatus

\* C10: when the exit-wait resolves with an OS error, wait fails with that
\* error: no variant, no further iteration, no termination request.
C10_WaitErrorPropagates ==
    [][(Took("exit") /\ child.st = "fault") =>
        /\ result' = WaitErr("wait", child.err)
        /\ pc' = "done"
        /\ iter' = iter
        /\ acq' = acq
        /\ killCount' = killCount
        /\ killPending' = killPending]_vars

C10_Witness ==
    Returned /\ branch = "exit" /\ result.kind = "Err" /\ result.err = "ECHILD"
        /\ killCount = 0

\* C11: poll() is one step that changes nothing but its answer: None while the
\* child runs, Some(Ok(output)) once it has exited, with the status (and empty
\* stdout/stderr) wait reports for that child, Some(Err) when the query fails.
C11_PollClassifies ==
    [][polls' = polls + 1 =>
        /\ UNCHANGED <<envVars, callVars>>
        /\ (child.st = "running" => lastPoll' = [kind |-> "None"])
        /\ (child.st = "exited" =>
              /\ lastPoll'.kind = "Some" /\ lastPoll'.res = "Ok"
              /\ lastPoll'.output = [status |-> child.status, stdout |-> <<>>, stderr |-> <<>>]
              /\ lastPoll'.output = ExitOutcome(child).output)
        /\ (child.st = "fault" =>
              /\ lastPoll'.kind = "Some" /\ lastPoll'.res = "Err"
              /\ lastPoll'.err = child.err)]_vars

C11_Witness ==
    /\ polls > 0 /\ lastPoll.kind = "Some" /\ lastPoll.res = "Ok"
    /\ result.kind = "Completed" /\ lastPoll.output = result.output
    /\ lastPoll.output.status = MaxStatus

\* C16: on the stub platform the construction of the listeners never fails and
\* no listener branch of the select is ever ready or taken, whatever has been
\* delivered and however often the listeners are awaited.
C16_StubListenersNeverFire ==
    platform = "stub" =>
        /\ branch \notin {"tstp", "chld", "int"}
        /\ retReady \cap {"tstp", "chld", "int"} = {}
        /\ (pc = "select" => Ready \cap {"tstp", "chld", "int"} = {})
        /\ (pc \in {"loop", "select"} => (acq.tstp = 1 /\ acq.chld = 1))
        /\ (result.kind = "Err" => result.origin = "wait")

C16_Witness ==
    /\ platform = "stub" /\ pc = "select" /\ calls = MaxCalls
    /\ pending["tstp"] /\ pending["int"] /\ child.st = "running"

\* C18, its conclusion: a call without cancellation source that went through a
\* child-state or interrupt notification and returns once the child has exited
\* returns Completed, never Stopped.
C18_ExitAfterNotificationCompletes ==
    (Returned /\ token = "none" /\ iter >= 2 /\ retChild = "exited" /\ result.kind # "Err")
        => result.kind = "Completed"

\* C19 as stated: each of the three listeners is acquired at most once by a call.
C19_AllListenersAcquiredOnce == acq.tstp <= 1 /\ acq.chld <= 1 /\ acq.ctrlc <= 1

\* C19 amended: the stop and the child-state-changed listener are acquired once,
\* before the loop, and an iteration leaves what was delivered to them in
\* place; the interrupt future is created once per iteration.
C19_StopAndChldAcquiredOnce ==
    /\ [](/\ acq.tstp <= 1 /\ acq.chld <= 1
          /\ (pc \in {"loop", "select"} => (acq.tstp = 1 /\ acq.chld = 1))
          /\ acq.ctrlc = iter)
    /\ [][(pc = "loop" /\ pc' = "select") =>
            (pending'["tstp"] = pending["tstp"] /\ pending'["chld"] = pending["chld"])]_vars

C19_Witness ==
    /\ pc = "select" /\ iter = 2 /\ acq.tstp = 1 /\ acq.chld = 1 /\ acq.ctrlc = 2
    /\ branch = "int" /\ "tstp" \in Ready

\* C20: on the stub platform wait never returns Stopped: a call ends in
\* Completed, Cancelled or an error, and without a cancellation source in
\* Completed or an error.
C20_StubNeverStopped ==
    (platform = "stub" /\ Returned) =>
        /\ result.kind \in {"Completed", "Cancelled", "Err"}
        /\ (token = "none" => result.kind \in {"Completed", "Err"})
        /\ pollCount = 0

C20_Witness ==
    /\ platform = "stub" /\ Returned /\ token = "none" /\ result.kind = "Completed"
    /\ sent["tstp"] /\ anyStopped

\* the canonical short name of a signal
CanonicalName(g) ==
    CASE g = "Terminate" -> <<"T", "E", "R", "M">>
      [] g = "Kill" -> <<"K", "I", "L", "L">>
      [] g = "Interrupt" -> <<"I", "N", "T">>

\* str spells word w (capital letters), the case of each letter left free
SameIgnoringCase(str, w) ==
    /\ Len(str) = Len(w)
    /\ \A i \in 1..Len(w) : str[i] \in CaseForms(w[i])

\* str names signal g: its canonical name, with or without the SIG prefix
Names(str, g) ==
    \/ SameIgnoringCase(str, CanonicalName(g))
    \/ SameIgnoringCase(str, <<"S", "I", "G">> \o CanonicalName(g))

\* C12: for every signal s yielded by Signal::iterator(), from_str(as_str(s))
\* returns Ok(s), and distinct signals have distinct names.
C12_NameRoundTrip ==
    /\ sigOp = "as_str" => (sigArg \in Signals /\ sigOut = OkSig(sigArg))
    /\ \A g, h \in Signals : as_str(g) = as_str(h) => g = h

C12_Witness == sigOp = "as_str" /\ sigArg = "Interrupt" /\ sigOut = OkSig("Interrupt")

\* C13: from_str returns Ok(g) exactly for the strings that spell the canonical
\* name of a signal g of the platform, with or without SIG, in any letter case;
\* for every other string, and for every string where the signal set is empty,
\* it fails with InvalidSignal carrying the string as given.
C13_FromStrAcceptsNames ==
    sigOp = "from_str" =>
        IF \E g \in Signals : Names(strIn, g)
        THEN \E g \in Signals : Names(strIn, g) /\ sigOut = OkSig(g)
        ELSE sigOut = InvalidSignal(strIn)

C13_Witness ==
    /\ sigOp = "from_str" /\ windows
    /\ strIn = <<"s", "i", "g", "T", "e", "r", "m">>
    /\ sigOut = OkSig("Terminate")

\* C14: sending a signal with kill_process succeeds only for Terminate and
\* Kill; for any other signal, Interrupt included, it fails (with
\* NotSupportedOnThisPlatform, a target that cannot be opened aside) and the
\* target is not terminated.
C14_OnlyForcedTermination ==
    (sigOp = "kill_process" /\ sigArg \in Signals) =>
        /\ sigOut.kind = "Ok" => sigArg \in {"Terminate", "Kill"}
        /\ sigArg \notin {"Terminate", "Kill"} =>
              /\ sigOut \in {NotSupportedOnThisPlatform("killing process"), FailedToSendSignal}
              /\ proc # "terminated"

RECURSIVE ParseDigits(_)
\* the number a sequence of decimal digits denotes
ParseDigits(ds) ==
    IF ds = <<>> THEN 0
    ELSE 10 * ParseDigits(SubSeq(ds, 1, Len(ds) - 1))
           + ((CHOOSE i \in DOMAIN DigitChars : DigitChars[i] = ds[Len(ds)]) - 1)

\* the number a decimal text denotes
ParseI32(text) ==
    IF text # <<>> /\ text[1] = "-" THEN 0 - ParseDigits(Tail(text)) ELSE ParseDigits(text)

\* C15: converting an i32 to a Signal always fails with InvalidSignal carrying
\* the decimal text of the value.
C15_TryFromAlwaysFails ==
    sigOp = "try_from" =>
        /\ sigOut.kind = "Err"
        /\ sigOut.error = "InvalidSignal"
        /\ sigOut.text # <<>>
        /\ \A i \in DOMAIN sigOut.text :
              (sigOut.text[i] = "-" /\ i = 1) \/ (\E d \in DOMAIN DigitChars : DigitChars[d] = sigOut.text[i])
        /\ ParseI32(sigOut.text) = numIn

C15_Witness ==
    sigOp = "try_from" /\ windows /\ numIn = 15 /\ sigOut = InvalidSignal(<<"1", "5">>)

\* how recent an entry is, an entry without mtime being as old as can be
Recency(e) == IF e.mtime.some THEN e.mtime.ms ELSE 0

\* C17: with sortByMtime, find returns the maxResults most recent of all the
\* matching entries, most recent first (no mtime: oldest): every entry has been
\* visited, no entry left out is more recent than a returned one, at most
\* maxResults are returned, and totalMatches is their number.
C17_SortThenLimit ==
    (findPc = "done" /\ sortByMtime) =>
        LET out == findOut.matches
            returned == {out[i].path : i \in 1..Len(out)}
        IN /\ Len(out) = IF Len(walk) <= maxResults THEN Len(walk) ELSE maxResults
           /\ findOut.totalMatches = Len(out)
           /\ (maxResults > 0 => idx = Len(walk))
           /\ \A i \in 1..Len(out) : out[i] = walk[out[i].path]
           /\ \A i, j \in 1..Len(out) : i < j =>
                 (out[i].path # out[j].path /\ Recency(out[i]) >= Recency(out[j]))
           /\ \A k \in 1..Len(walk) : k \notin returned =>
                 \A i \in 1..Len(out) : Recency(walk[k]) <= Recency(out[i])

C17_Witness ==
    /\ findPc = "done" /\ sortByMtime /\ Len(walk) = MaxEntries /\ maxResults = MaxEntries - 1
    /\ ~walk[1].mtime.some /\ findOut.matches[1].path = MaxEntries
    /\ findOut.totalMatches = MaxEntries - 1

\* a wait call is running
InCall == pc \in {"tstp", "chld", "loop", "select"}

\* C21: with finitely many notifications and a ready select branch eventually
\* taken, a running wait call returns once the child has exited (or its
\* exit-wait has failed) or the cancellation source of the call has fired: a
\* call that never returns has a child that keeps running and no fired
\* cancellation source.
C21_WaitTerminates ==
    (InCall /\ (child.st # "running" \/ (token = "some" /\ cancelFired))) ~> Returned

C21_Witness ==
    /\ Returned /\ iter = MaxNotifs + 1 /\ notifs = MaxNotifs
    /\ branch = "cancel" /\ result = Cancelled /\ child.st = "running"

\* C22: a wait call requests the termination at most once, and only in the step
\* that takes the cancellation branch and returns Cancelled; a call that
\* returned anything else has requested none; poll() requests none and leaves
\* the child alone; no step of wait or poll changes the cancellation source.
C22_KillOnlyWhenCancelled ==
    /\ [](killCount <= 1)
    /\ [](killCount = 1 => Returned /\ result = Cancelled /\ branch = "cancel")
    /\ [](Returned /\ result.kind # "Cancelled" => killCount = 0)
    /\ [][(killCount' > killCount \/ (killPending' /\ ~killPending)) => Took("cancel")]_vars
    /\ [][Poll => child' = child /\ killPending' = killPending /\ killCount' = killCount]_vars
    /\ [][(WaitCall \/ WaitStep \/ Poll) => cancelFired' = cancelFired]_vars

C22_Witness ==
    /\ Returned /\ result = Cancelled /\ killCount = 1 /\ killRes = "ok" /\ iter = 2
    /\ polls = 1 /\ calls = MaxCalls

====
